---- MODULE Spec2Model ----
(***************************************************************************)
(* Tic-tac-toe with move history (src/src/exercises/09.classes.js):        *)
(* boardReducer, the Game component that drives it through useReducer, and *)
(* the pure helper calculateWinner.                                        *)
(*                                                                         *)
(* JavaScript arrays are 0-based.  A board (`squares`) is a function on    *)
(* 0..8; `history` is a TLA+ sequence, so history[i] of the source is      *)
(* history[i + 1] here.                                                    *)
(***************************************************************************)
EXTENDS Integers, Sequences, FiniteSets, TLC

VARIABLES
  state,        \* the reducer state {history, stepNumber}, or Undefined
  mounted,      \* TRUE while the Game component is rendered
  thrown,       \* error raised by the last call: "none", "TypeError", "Error"
  lastAction,   \* the action object of the last dispatch
  discarded,    \* snapshots dropped by history.slice in the last dispatch
  moves,        \* number of SELECT_SQUARE dispatches that appended a snapshot
  jumped,       \* TRUE once a SET_STEPNUMBER has been dispatched
  squares,      \* argument of the calculateWinner call under test
  winner,       \* its return value ("pending" before the call)
  boardSquares, \* Board of 09.classes.js (useState): squares
  boardXIsNext, \* Board of 09.classes.js (useState): xIsNext
  exSquares,    \* Board of the 'Advanced State' exercise: squares
  exXIsNext,    \* Board of the 'Advanced State' exercise: xIsNext
  exClicked,    \* its button clicked last, <<row, col>> (Null before any)
  count,        \* Counter: state.count
  clicks        \* number of clicks on the Counter's button

vars == <<state, mounted, thrown, lastAction, discarded, moves, jumped,
          squares, winner, boardSquares, boardXIsNext, exSquares,
          exXIsNext, exClicked, count, clicks>>

gameVars == <<state, mounted, thrown, lastAction, discarded, moves, jumped>>
winnerVars == <<squares, winner>>
boardVars == <<boardSquares, boardXIsNext>>
exVars == <<exSquares, exXIsNext, exClicked>>
counterVars == <<count, clicks>>

(***************************************************************************)
(* Bounds of the model.                                                    *)
(***************************************************************************)
MaxMoves == 5      \* successful moves dispatched in one run
MaxSquare == 5     \* the squares clicked in Spec are 0 .. MaxSquare
MaxProbe == 1      \* the squares passed in SpecReducer are 0 .. MaxProbe
MaxAppends == 3    \* successful moves in one run of SpecReducer
MaxPlay == 10      \* successful moves in one run of SpecPlay
MaxClicks == 120   \* clicks on the Counter's button in one run

(***************************************************************************)
(* Values.                                                                 *)
(***************************************************************************)
Min(a, b) == IF a < b THEN a ELSE b
Max(a, b) == IF a > b THEN a ELSE b

Null == "null"
Undefined == [undefined |-> TRUE]
Cells == 0 .. 8
CellValues == {Null, "X", "O"}
EmptyBoard == [i \in Cells |-> Null]
Clicked == 0 .. Min(MaxSquare, 8)
Probed == 0 .. Min(MaxProbe, 8)
NoAction == [type |-> "none"]

Missing == "undefined"     \* what reading an absent element yields

Truthy(v) == v # Null /\ v # Missing

\* arr.length, for an array kept as a function on its keys
length(arr) ==
  IF \E i \in DOMAIN arr : i >= 0
  THEN 1 + CHOOSE i \in DOMAIN arr : i >= 0 /\ \A j \in DOMAIN arr : j <= i
  ELSE 0

\* arr[i]
arrayGet(arr, i) == IF i \in DOMAIN arr THEN arr[i] ELSE Missing

\* arr[i] = v: an index past the end lengthens the array, a negative index
\* becomes a property of the array object
arraySet(arr, i, v) ==
  [j \in DOMAIN arr \cup {i} |-> IF j = i THEN v ELSE arr[j]]

\* [...arr]: the elements 0 .. length - 1, holes read as undefined
spread(arr) == [j \in 0 .. length(arr) - 1 |-> arrayGet(arr, j)]

\* Array.prototype.slice(0, end)
slice(arr, end) ==
  LET e == IF end < 0 THEN Max(Len(arr) + end, 0) ELSE Min(end, Len(arr))
  IN  SubSeq(arr, 1, e)

(***************************************************************************)
(* calculateWinner                                                         *)
(***************************************************************************)
linesWrongDiagonal ==
  << <<0, 1, 2>>, <<3, 4, 5>>, <<6, 7, 8>>,
     <<0, 3, 6>>, <<1, 4, 7>>, <<2, 5, 8>>,
     <<0, 4, 8>>, <<2, 4, 7>> >>

lines ==
  << <<0, 1, 2>>, <<3, 4, 5>>, <<6, 7, 8>>,
     <<0, 3, 6>>, <<1, 4, 7>>, <<2, 5, 8>>,
     <<0, 4, 8>>, <<2, 4, 6>> >>

RECURSIVE winnerLoop(_, _)
winnerLoop(sq, i) ==
  IF i > Len(lines) THEN Null
  ELSE LET a == lines[i][1]
           b == lines[i][2]
           c == lines[i][3]
       IN  IF Truthy(sq[a]) /\ sq[a] = sq[b] /\ sq[a] = sq[c]
           THEN sq[a]
           ELSE winnerLoop(sq, i + 1)

calculateWinner(sq) == winnerLoop(sq, 1)

(***************************************************************************)
(* boardReducer.  The result is [error, value]: error is "none" when the   *)
(* call returns `value`, else the kind of error it throws.                 *)
(***************************************************************************)
Return(v) == [error |-> "none", value |-> v]
Throw(e) == [error |-> e, value |-> Undefined]

SelectAction(square) == [type |-> "SELECT_SQUARE", square |-> square]
JumpAction(stepNumber) ==
  [type |-> "SET_STEPNUMBER", stepNumber |-> stepNumber]

xIsNextOdd(stepNumber) == stepNumber % 2 = 1

\* line 183: const xIsNext = state.stepNumber % 2 === 0
xIsNext(stepNumber) == stepNumber % 2 = 0

newHistoryWhole(s) == s.history

\* line 192: state.history.slice(0, state.stepNumber + 1)
newHistoryOf(s) == slice(s.history, s.stepNumber + 1)

SET_STEPNUMBER_truncating(s, stepNumber) ==
  Return([history |-> slice(s.history, stepNumber + 1),
          stepNumber |-> stepNumber])

SET_STEPNUMBER(s, stepNumber) ==
  Return([history |-> s.history, stepNumber |-> stepNumber])

\* the SELECT_SQUARE case without advancing stepNumber
SELECT_SQUARE_stale(s, square) ==
  LET newHistory == newHistoryOf(s)
  IN  IF newHistory = << >>
      THEN Throw("TypeError")
      ELSE LET sq == newHistory[Len(newHistory)].squares
           IN  IF Truthy(calculateWinner(sq)) \/ Truthy(sq[square])
               THEN Return(Undefined)
               ELSE LET marked ==
                          [sq EXCEPT ![square] =
                             IF xIsNext(s.stepNumber) THEN "X" ELSE "O"]
                    IN  Return([history |->
                                  Append(newHistory, [squares |-> marked]),
                                stepNumber |-> s.stepNumber])

\* the SELECT_SQUARE case writing into current.squares, not into a copy
SELECT_SQUARE_inPlace(s, square) ==
  LET newHistory == newHistoryOf(s)
  IN  IF newHistory = << >>
      THEN Throw("TypeError")
      ELSE LET sq == newHistory[Len(newHistory)].squares
           IN  IF Truthy(calculateWinner(sq)) \/ Truthy(sq[square])
               THEN Return(Undefined)
               ELSE LET marked ==
                          [sq EXCEPT ![square] =
                             IF xIsNext(s.stepNumber) THEN "X" ELSE "O"]
                        shared ==
                          [newHistory EXCEPT
                             ![Len(newHistory)] = [squares |-> marked]]
                    IN  Return([history |->
                                  Append(shared, [squares |-> marked]),
                                stepNumber |-> s.stepNumber + 1])

\* the SELECT_SQUARE case without the calculateWinner test
SELECT_SQUARE_noWinnerTest(s, square) ==
  LET newHistory == newHistoryOf(s)
  IN  IF newHistory = << >>
      THEN Throw("TypeError")
      ELSE LET sq == spread(newHistory[Len(newHistory)].squares)
           IN  IF Truthy(arrayGet(sq, square))
               THEN Return(Undefined)
               ELSE LET marked ==
                          arraySet(sq, square,
                             IF xIsNext(s.stepNumber) THEN "X" ELSE "O")
                    IN  Return([history |->
                                  Append(newHistory, [squares |-> marked]),
                                stepNumber |-> s.stepNumber + 1])

\* the SELECT_SQUARE case without the test of squares[action.square]
SELECT_SQUARE_overwriting(s, square) ==
  LET newHistory == newHistoryOf(s)
  IN  IF newHistory = << >>
      THEN Throw("TypeError")
      ELSE LET sq == spread(newHistory[Len(newHistory)].squares)
           IN  IF Truthy(calculateWinner(sq))
               THEN Return(Undefined)
               ELSE LET marked ==
                          arraySet(sq, square,
                             IF xIsNext(s.stepNumber) THEN "X" ELSE "O")
                    IN  Return([history |->
                                  Append(newHistory, [squares |-> marked]),
                                stepNumber |-> s.stepNumber + 1])

\* the SELECT_SQUARE case always writing 'X'
SELECT_SQUARE_alwaysX(s, square) ==
  LET newHistory == newHistoryOf(s)
  IN  IF newHistory = << >>
      THEN Throw("TypeError")
      ELSE LET sq == spread(newHistory[Len(newHistory)].squares)
           IN  IF Truthy(calculateWinner(sq)) \/ Truthy(arrayGet(sq, square))
               THEN Return(Undefined)
               ELSE Return([history |->
                              Append(newHistory,
                                     [squares |-> arraySet(sq, square, "X")]),
                            stepNumber |-> s.stepNumber + 1])

SELECT_SQUARE(s, square) ==
  LET newHistory == newHistoryOf(s)
  IN  IF newHistory = << >>
      THEN Throw("TypeError")
      ELSE LET current == newHistory[Len(newHistory)]
               sq == spread(current.squares)
           IN  IF Truthy(calculateWinner(sq)) \/ Truthy(arrayGet(sq, square))
               THEN Return(Undefined)
               ELSE LET marked ==
                          arraySet(sq, square,
                             IF xIsNext(s.stepNumber) THEN "X" ELSE "O")
                    IN  Return([history |->
                                  Append(newHistory, [squares |-> marked]),
                                stepNumber |-> s.stepNumber + 1])

boardReducer(s, action) ==
  IF s = Undefined
  THEN Throw("TypeError")
  ELSE CASE action.type = "SET_STEPNUMBER" ->
              SET_STEPNUMBER(s, action.stepNumber)
         [] action.type = "SELECT_SQUARE" ->
              SELECT_SQUARE(s, action.square)
         [] OTHER -> Throw("Error")

(***************************************************************************)
(* Game: the initial reducer state and what a render computes.             *)
(***************************************************************************)
initialState ==
  [history |-> << [squares |-> EmptyBoard] >>, stepNumber |-> 0]

\* The error a render of Game raises on reducer state s ("none": it renders).
renderError(s) ==
  IF s = Undefined THEN "TypeError"
  ELSE IF s.stepNumber \notin 0 .. Len(s.history) - 1 THEN "TypeError"
  ELSE "none"

\* line 222: const xIsNext = stepNumber % 2 === 0
Game_xIsNext(stepNumber) == stepNumber % 2 = 0

current(s) == s.history[s.stepNumber + 1]

\* status with the full-board test made before the winner test
statusScratchFirst(s) ==
  LET w == calculateWinner(current(s).squares)
  IN  IF \A i \in Cells : Truthy(current(s).squares[i])
      THEN <<"Scratch", Null>>
      ELSE IF Truthy(w) THEN <<"Winner", w>>
           ELSE <<"Next player",
                  IF Game_xIsNext(s.stepNumber) THEN "X" ELSE "O">>

status(s) ==
  LET w == calculateWinner(current(s).squares)
  IN  IF Truthy(w) THEN <<"Winner", w>>
      ELSE IF \A i \in Cells : Truthy(current(s).squares[i])
           THEN <<"Scratch", Null>>
           ELSE <<"Next player",
                  IF Game_xIsNext(s.stepNumber) THEN "X" ELSE "O">>

\* The stepNumbers of the "Go to move" buttons.
moveButtons(s) == 0 .. Len(s.history) - 1

(***************************************************************************)
(* Bookkeeping shared by every dispatch.                                   *)
(***************************************************************************)
Appended(action, r) ==
  /\ action.type = "SELECT_SQUARE"
  /\ r.error = "none"
  /\ r.value # Undefined

Observe(s, action, r) ==
  /\ lastAction' = action
  /\ discarded' = IF s # Undefined /\ action.type = "SELECT_SQUARE"
                  THEN Len(s.history) - Len(newHistoryOf(s))
                  ELSE 0
  /\ moves' = IF Appended(action, r) THEN moves + 1 ELSE moves
  /\ jumped' = (jumped \/ action.type = "SET_STEPNUMBER")

(***************************************************************************)
(* Spec: the Game component.  A click dispatches an action; useReducer     *)
(* stores what boardReducer returns and Game renders again.  An error      *)
(* raised by the reducer or by the render unmounts the component.          *)
(***************************************************************************)
\* One dispatch and the render that follows it; at most maxMoves moves are
\* appended in a run.
useReducer(action, maxMoves) ==
  /\ mounted
  /\ LET r == boardReducer(state, action)
         err == IF r.error # "none" THEN r.error ELSE renderError(r.value)
     IN  /\ Appended(action, r) => moves < maxMoves
         /\ state' = IF r.error = "none" THEN r.value ELSE state
         /\ thrown' = err
         /\ mounted' = (err = "none")
         /\ Observe(state, action, r)

dispatch(action) ==
  /\ useReducer(action, MaxMoves)
  /\ UNCHANGED <<winnerVars, boardVars, exVars, counterVars>>

selectSquare(square) == dispatch(SelectAction(square))

ClickMove(stepNumber) == dispatch(JumpAction(stepNumber))

InitGame ==
  /\ state = initialState
  /\ mounted = TRUE
  /\ thrown = "none"
  /\ lastAction = NoAction
  /\ discarded = 0
  /\ moves = 0
  /\ jumped = FALSE

\* Board (09.classes.js, lines 9-10) and Board (the exercise, lines 22-23)
InitBoards ==
  /\ boardSquares = EmptyBoard
  /\ boardXIsNext = TRUE
  /\ exSquares = EmptyBoard
  /\ exXIsNext = TRUE
  /\ exClicked = Null

InitCounter ==
  /\ count = 0
  /\ clicks = 0

Init ==
  /\ InitGame
  /\ InitBoards
  /\ InitCounter
  /\ squares = EmptyBoard
  /\ winner = "pending"

Next ==
  \/ \E square \in Clicked : selectSquare(square)
  \/ mounted /\ \E stepNumber \in moveButtons(state) : ClickMove(stepNumber)

Spec == Init /\ [][Next]_vars

(***************************************************************************)
(* SpecReducer: boardReducer called as a plain function,                   *)
(* state = boardReducer(state, action), with any stepNumber from one below *)
(* to one above the indices of history.  An error it throws leaves the     *)
(* caller's state as it was.                                               *)
(***************************************************************************)
reduce(action) ==
  /\ LET r == boardReducer(state, action)
     IN  /\ Appended(action, r) => moves < MaxAppends
         /\ state' = IF r.error = "none" THEN r.value ELSE state
         /\ thrown' = r.error
         /\ Observe(state, action, r)
  /\ UNCHANGED <<mounted, winnerVars, boardVars, exVars, counterVars>>

stepNumbers(s) == IF s = Undefined THEN {0} ELSE -1 .. Len(s.history)

\* the squares passed: some of the board, one below it and one above it
squareArguments == Probed \cup {-1, 9}

\* action types boardReducer has no case for
otherTypes == {"INCREMENT", "RESET"}

ReduceOther(type) == reduce([type |-> type])

ReduceSelect(square) == reduce(SelectAction(square))

ReduceSetStepNumber(stepNumber) == reduce(JumpAction(stepNumber))

NextReducer ==
  \/ \E square \in squareArguments : ReduceSelect(square)
  \/ \E stepNumber \in stepNumbers(state) : ReduceSetStepNumber(stepNumber)
  \/ \E type \in otherTypes : ReduceOther(type)

SpecReducer == Init /\ [][NextReducer]_vars

(***************************************************************************)
(* SpecWinner: calculateWinner applied to every board of nine cells.       *)
(***************************************************************************)
InitWinner ==
  /\ InitGame
  /\ InitBoards
  /\ InitCounter
  /\ squares \in [Cells -> CellValues]
  /\ winner = "pending"

CallCalculateWinner ==
  /\ winner = "pending"
  /\ winner' = calculateWinner(squares)
  /\ UNCHANGED <<squares, gameVars, boardVars, exVars, counterVars>>

NextWinner == CallCalculateWinner

SpecWinner == InitWinner /\ [][NextWinner]_vars

(***************************************************************************)
(* SpecPlay: the Game played to the end on all nine squares.  The players  *)
(* start with one of the Openings; from then on any square is clicked and  *)
(* any "Go to move" button.                                                *)
(***************************************************************************)
Openings == { <<0, 4, 1, 8>>, <<0, 4, 1, 2>>, <<4, 0, 8, 1>> }

\* the board after the first n moves of opening o
boardAfter(o, n) ==
  [i \in Cells |->
     IF \E k \in 1 .. n : o[k] = i
     THEN IF (CHOOSE k \in 1 .. n : o[k] = i) % 2 = 1 THEN "X" ELSE "O"
     ELSE Null]

\* the squares clicked on the board shown for state s
played(s) ==
  IF \E o \in Openings : s.stepNumber < Len(o)
  THEN {o[s.stepNumber + 1] :
          o \in {p \in Openings :
                   /\ s.stepNumber < Len(p)
                   /\ current(s).squares = boardAfter(p, s.stepNumber)}}
  ELSE Cells

PlaySquare(square) ==
  /\ useReducer(SelectAction(square), MaxPlay)
  /\ UNCHANGED <<winnerVars, boardVars, exVars, counterVars>>

PlayMove(stepNumber) ==
  /\ useReducer(JumpAction(stepNumber), MaxPlay)
  /\ UNCHANGED <<winnerVars, boardVars, exVars, counterVars>>

NextPlay ==
  \/ mounted /\ \E square \in played(state) : PlaySquare(square)
  \/ mounted /\ \E stepNumber \in moveButtons(state) : PlayMove(stepNumber)

SpecPlay == Init /\ [][NextPlay]_vars

(***************************************************************************)
(* The Board of the 'Advanced State' exercise (src/unnamed/part_001): two  *)
(* useState cells, nine buttons built from `rows` and `cols`.              *)
(***************************************************************************)
rows == <<1, 2, 3>>

cols == <<0, 2, 5>>

\* the buttons rendered, each named by its <<row, col>>
Buttons == {<<rows[i], cols[j]>> : i \in 1 .. 3, j \in 1 .. 3}

\* the argument a button's onClick passes to selectSquare
selects(b) == b[1] + b[2]

\* what React renders for a child value: nothing for null and undefined
text(v) == IF Truthy(v) THEN v ELSE ""

\* the content of a button
shown(sq, b) == text(arrayGet(sq, b[1] * b[2]))

\* n[a] for a number n: a number has no indexed properties
numberGet(n, a) == Missing

\* calculateWinner called with a number instead of the squares array
calculateWinnerOfNumber(n) ==
  LET hits == {i \in 1 .. Len(lines) :
                 /\ Truthy(numberGet(n, lines[i][1]))
                 /\ numberGet(n, lines[i][1]) = numberGet(n, lines[i][2])
                 /\ numberGet(n, lines[i][1]) = numberGet(n, lines[i][3])}
  IN  IF hits = {} THEN Null
      ELSE numberGet(n, lines[CHOOSE i \in hits :
                                 \A j \in hits : i <= j][1])

Board_selectSquare(square) ==
  IF Truthy(calculateWinnerOfNumber(square))
       \/ Truthy(arrayGet(exSquares, square))
  THEN UNCHANGED <<exSquares, exXIsNext>>
  ELSE /\ exSquares' = arraySet(spread(exSquares), square,
                                IF exXIsNext THEN "X" ELSE "O")
       /\ exXIsNext' = ~exXIsNext

Board_winner == calculateWinner(exSquares)

\* renderStatus: three assignments to `status` in sequence
renderStatus ==
  LET first == IF Truthy(Board_winner)
               THEN <<"Winner", Board_winner>> ELSE Missing
      second == IF ~Truthy(Board_winner)
                     /\ \A i \in DOMAIN exSquares : exSquares[i] # Null
                THEN <<"Scratch", Null>> ELSE first
      third == <<"Next player", IF exXIsNext THEN "X" ELSE "O">>
  IN  third

ClickSquare(b) ==
  /\ exClicked' = b
  /\ Board_selectSquare(selects(b))
  /\ UNCHANGED <<gameVars, winnerVars, boardVars, counterVars>>

NextExercise == \E b \in Buttons : ClickSquare(b)

SpecExercise == Init /\ [][NextExercise]_vars

(***************************************************************************)
(* SpecCounter: the Counter of the useReducer example (the comment in      *)
(* 09.classes.js), clicked as the test of src/unnamed/part_000 clicks it.  *)
(***************************************************************************)
\* the reducer with INCREMENT returning the state it was given
counterReducerIdle(s, action) ==
  IF action.type = "INCREMENT"
  THEN Return([count |-> s.count])
  ELSE Throw("Error")

counterReducer(s, action) ==
  IF action.type = "INCREMENT"
  THEN Return([count |-> s.count + 1])
  ELSE Throw("Error")

digits == <<"0", "1", "2", "3", "4", "5", "6", "7", "8", "9">>

\* String(n) for a natural number n, as a sequence of characters
RECURSIVE toString(_)
toString(n) ==
  IF n < 10 THEN <<digits[n + 1]>>
  ELSE Append(toString(n \div 10), digits[(n % 10) + 1])

\* button.textContent: the text React renders for {count}
textContent == toString(count)

\* increment, the button's onClick
increment ==
  /\ clicks < MaxClicks
  /\ LET r == counterReducer([count |-> count], [type |-> "INCREMENT"])
     IN  /\ r.error = "none"
         /\ count' = r.value.count
  /\ clicks' = clicks + 1
  /\ UNCHANGED <<gameVars, winnerVars, boardVars, exVars>>

NextCounter == increment

SpecCounter == Init /\ [][NextCounter]_vars

(***************************************************************************)
(* SpecBoth: the Board of "Refactor to hooks" (useState squares, xIsNext)  *)
(* and the Game, given the same clicks on squares 0 .. MaxSquare.          *)
(***************************************************************************)
RefBoard_selectSquare(square) ==
  IF Truthy(calculateWinner(boardSquares))
       \/ Truthy(arrayGet(boardSquares, square))
  THEN UNCHANGED boardVars
  ELSE /\ boardSquares' = arraySet(spread(boardSquares), square,
                                   IF boardXIsNext THEN "X" ELSE "O")
       /\ boardXIsNext' = ~boardXIsNext

RefBoard_status ==
  LET w == calculateWinner(boardSquares)
  IN  IF Truthy(w) THEN <<"Winner", w>>
      ELSE IF \A i \in DOMAIN boardSquares : Truthy(boardSquares[i])
           THEN <<"Scratch", Null>>
           ELSE <<"Next player", IF boardXIsNext THEN "X" ELSE "O">>

\* one click on square `square` of each of the two boards
SelectBoth(square) ==
  /\ RefBoard_selectSquare(square)
  /\ IF mounted
     THEN useReducer(SelectAction(square), MaxMoves)
     ELSE UNCHANGED gameVars
  /\ UNCHANGED <<winnerVars, exVars, counterVars>>

NextBoth == \E square \in Clicked : SelectBoth(square)

SpecBoth == Init /\ [][NextBoth]_vars

(***************************************************************************)
(* Properties.                                                             *)
(***************************************************************************)
Defined == state # Undefined

\* The step dispatches this kind of action (every step of every
\* specification of the game records its action in lastAction).
Selects == lastAction'.type = "SELECT_SQUARE"
Jumps == lastAction'.type = "SET_STEPNUMBER"

LastWasSelect == lastAction.type = "SELECT_SQUARE"
LastWasJump == lastAction.type = "SET_STEPNUMBER"

InRange(s, k) == k \in 0 .. Len(s.history) - 1

\* The cells in which two boards differ.
Changed(before, after) == {i \in Cells : before[i] # after[i]}

\* after is before with exactly one Empty cell marked
OneMarkAdded(before, after) ==
  /\ DOMAIN before = Cells
  /\ DOMAIN after = Cells
  /\ Cardinality(Changed(before, after)) = 1
  /\ \A i \in Changed(before, after) :
       before[i] = Null /\ after[i] \in {"X", "O"}

\* C1: a SELECT_SQUARE whose square is occupied in the snapshot at the
\* cursor leaves the state (History and Cursor) exactly as it was, and the
\* game keeps accepting intents.
C1_OccupiedSelectKeepsState ==
  [][ (mounted /\ Defined /\ Selects
         /\ Truthy(current(state).squares[lastAction'.square]))
      => (state' = state /\ mounted') ]_vars

\* C2: once the snapshot at the cursor has a winner (or the board is full),
\* a SELECT_SQUARE of any square leaves History and Cursor unchanged, so a
\* Won or Draw game stays Won or Draw under select intents.
C2_DecidedSelectKeepsState ==
  [][ (mounted /\ Defined /\ Selects
         /\ status(state)[1] \in {"Winner", "Scratch"})
      => (state' = state /\ mounted' /\ status(state') = status(state)) ]_vars

\* C3: a jump to k followed by a successful move yields the old snapshots
\* 0..k, unchanged and in order, followed by exactly one new snapshot: the
\* new History has length k + 2 whatever its length was before.
C3_JumpThenMoveTruncates ==
  [][ (Defined /\ LastWasJump /\ Selects /\ state' # Undefined)
      => LET k == lastAction.stepNumber
         IN  /\ state.stepNumber = k
             /\ Len(state'.history) = k + 2
             /\ SubSeq(state'.history, 1, k + 1)
                  = SubSeq(state.history, 1, k + 1)
             /\ OneMarkAdded(state.history[k + 1].squares,
                             state'.history[k + 2].squares) ]_vars

\* a move made after jumping from a history of length 5 back to its start
C3_Witness ==
  /\ Defined
  /\ LastWasSelect
  /\ discarded = 4
  /\ Len(state.history) = 2

\* C4: as long as no jump was made, History length is the number of moves
\* made plus 1; and right after any successful append the Cursor is
\* History.length - 1.
C4_LengthAndCursorAfterAppend ==
  /\ (Defined /\ ~jumped) => Len(state.history) = moves + 1
  /\ (Defined /\ LastWasSelect)
       => state.stepNumber = Len(state.history) - 1

C4_Witness ==
  /\ Defined
  /\ ~jumped
  /\ LastWasSelect
  /\ moves = 3

\* C5: in every state the Game reaches, the Cursor is an integer in
\* [0, length(History) - 1] and the current snapshot exists.
C5_CursorInRange ==
  /\ Defined
  /\ state.stepNumber \in 0 .. Len(state.history) - 1

\* C6: a SET_STEPNUMBER to an index outside [0, length(History) - 1] fails
\* with an error and changes neither Cursor nor History.
C6_OutOfRangeJumpFails ==
  [][ (Defined /\ Jumps /\ ~InRange(state, lastAction'.stepNumber))
      => (thrown' # "none" /\ state' = state) ]_vars

\* C7: a jump to an index of History sets the Cursor to it and leaves
\* History as it was; a step that drops or changes a snapshot of a History
\* is a successful append.
C7_JumpKeepsHistory ==
  [][ /\ (Defined /\ Jumps /\ InRange(state, lastAction'.stepNumber))
         => /\ state' # Undefined
            /\ state'.stepNumber = lastAction'.stepNumber
            /\ state'.history = state.history
      /\ (Defined /\ state' # Undefined /\ state'.history # state.history)
         => /\ Selects
            /\ Len(state'.history) = state.stepNumber + 2 ]_vars

\* a jump that leaves at least two snapshots after the new cursor
C7_Witness ==
  /\ Defined
  /\ LastWasJump
  /\ state.stepNumber = lastAction.stepNumber
  /\ state.stepNumber + 2 < Len(state.history)

\* C8: in every History, snapshot 0 is the empty board of 9 cells and each
\* snapshot i + 1 differs from snapshot i in exactly one cell, Empty at i
\* and marked at i + 1.
C8_HistoryShape ==
  Defined =>
    /\ state.history[1].squares = EmptyBoard
    /\ Cardinality(DOMAIN state.history[1].squares) = 9
    /\ \A i \in 1 .. Len(state.history) - 1 :
         OneMarkAdded(state.history[i].squares,
                      state.history[i + 1].squares)

\* a history rebuilt by two moves after a jump back
C8_Witness ==
  /\ Defined
  /\ jumped
  /\ LastWasSelect
  /\ discarded = 0
  /\ moves > Len(state.history)
  /\ Len(state.history) >= 4

\* C9: the mark a successful move writes at cursor c is X for even c and O
\* for odd c; it is the 'Next player' shown before the move; and in the
\* resulting History the mark added between snapshots i and i + 1 is X for
\* even i and O for odd i.
C9_TurnFollowsCursorParity ==
  [][ (Defined /\ Selects /\ state' # Undefined)
      => LET c == state.stepNumber
             m == state'.history[c + 2].squares[lastAction'.square]
             h == state'.history
         IN  /\ m = (IF c % 2 = 0 THEN "X" ELSE "O")
             /\ status(state) = <<"Next player", m>>
             /\ \A i \in 0 .. Len(h) - 2 :
                  \E j \in Cells :
                    /\ h[i + 1].squares[j] = Null
                    /\ h[i + 2].squares[j]
                         = (IF i % 2 = 0 THEN "X" ELSE "O") ]_vars

\* O has moved at an odd cursor reached by a jump
C9_Witness ==
  /\ Defined
  /\ LastWasSelect
  /\ discarded > 0
  /\ state.stepNumber = 2
  /\ state.history[3].squares[lastAction.square] = "O"

\* The eight lines in the order rows, columns, diagonals.
Line(k) ==
  IF k < 3 THEN {3 * k, 3 * k + 1, 3 * k + 2}
  ELSE IF k < 6 THEN {k - 3, k, k + 3}
  ELSE IF k = 6 THEN {0, 4, 8}
  ELSE {2, 4, 6}

Holds(sq, k, m) == \A i \in Line(k) : sq[i] = m

Complete(sq, k) == Holds(sq, k, "X") \/ Holds(sq, k, "O")

\* C10: on every board of 9 cells calculateWinner returns the mark of the
\* first of the eight lines that holds three equal marks, and null when no
\* line does.
C10_WinnerIsFirstCompleteLine ==
  winner # "pending" =>
    IF \E k \in 0 .. 7 : Complete(squares, k)
    THEN LET first == CHOOSE k \in 0 .. 7 :
                        /\ Complete(squares, k)
                        /\ \A l \in 0 .. k - 1 : ~Complete(squares, l)
         IN  /\ winner \in {"X", "O"}
             /\ Holds(squares, first, winner)
    ELSE winner = Null

\* a board on which both marks hold a line: the earlier line decides
C10_Witness ==
  /\ winner = "O"
  /\ Holds(squares, 1, "O")
  /\ Holds(squares, 2, "X")

\* C11: a SELECT_SQUARE whose square is outside 0..8 fails with an error and
\* leaves History and Cursor unchanged, so that no snapshot with more or
\* fewer than 9 cells is appended.
C11_OutOfRangeSquareFails ==
  [][ (Defined /\ Selects /\ lastAction'.square \notin Cells)
      => (thrown' # "none" /\ state' = state) ]_vars

\* C19: boardReducer raises an error for every action type other than
\* SET_STEPNUMBER and SELECT_SQUARE, and raises none for these two.
C19_OnlyTwoActionTypes ==
  [][ /\ lastAction'.type \notin {"SET_STEPNUMBER", "SELECT_SQUARE"}
         => (thrown' = "Error" /\ state' = state)
      /\ lastAction'.type \in {"SET_STEPNUMBER", "SELECT_SQUARE"}
         => thrown' = "none" ]_vars

Full(sq) == \A i \in Cells : sq[i] \in {"X", "O"}

AnyComplete(sq) == \E k \in 0 .. 7 : Complete(sq, k)

\* C12: the Game reports Winner P exactly when a line of the snapshot at
\* the cursor holds three P, Scratch exactly when no line is complete and no
\* cell is empty, and Next player otherwise; a full board with a complete
\* line is reported as won.
C12_StatusOfCurrentSnapshot ==
  (mounted /\ Defined) =>
    LET sq == current(state).squares
        st == status(state)
    IN  /\ st[1] \in {"Winner", "Scratch", "Next player"}
        /\ st[1] = "Winner" <=> AnyComplete(sq)
        /\ st[1] = "Winner" =>
             /\ st[2] = calculateWinner(sq)
             /\ \E k \in 0 .. 7 : Holds(sq, k, st[2])
        /\ st[1] = "Scratch" <=> (~AnyComplete(sq) /\ Full(sq))
        /\ st[1] = "Next player" <=> (~AnyComplete(sq) /\ ~Full(sq))

\* a full board with a complete line, shown as won
C12_Witness ==
  /\ mounted
  /\ Defined
  /\ Full(current(state).squares)
  /\ status(state)[1] = "Winner"

\* a full board without a complete line, shown as a draw
C12_WitnessDraw ==
  /\ mounted
  /\ Defined
  /\ status(state)[1] = "Scratch"

\* C13: a successful move is made from an InProgress state; the state it
\* leads to is Won(P) exactly when its snapshot is the first of the History
\* with a complete line, and then P is the mark that move wrote (X after an
\* odd number of snapshots before it, O otherwise).
C13_WonAtTheWinningMove ==
  [][ (mounted /\ Defined /\ Selects /\ state' # Undefined)
      => LET h == state'.history
             n == Len(h)
             mover == IF (state'.stepNumber - 1) % 2 = 0 THEN "X" ELSE "O"
         IN  /\ status(state)[1] = "Next player"
             /\ \A i \in 1 .. n - 1 : ~AnyComplete(h[i].squares)
             /\ status(state')[1] = "Winner" <=> AnyComplete(h[n].squares)
             /\ status(state')[1] = "Winner" =>
                  /\ status(state')[2] = mover
                  /\ h[n].squares[lastAction'.square] = mover ]_vars

\* X:0, O:4, X:1, O:8, X:2
C13_Witness ==
  /\ mounted
  /\ Defined
  /\ LastWasSelect
  /\ ~jumped
  /\ Len(state.history) = 6
  /\ state.history[6].squares
       = [i \in Cells |-> IF i \in {0, 1, 2} THEN "X"
                          ELSE IF i \in {4, 8} THEN "O" ELSE Null]
  /\ \A i \in 1 .. 5 : ~AnyComplete(state.history[i].squares)
  /\ status(state) = <<"Winner", "X">>

Count(sq, m) == Cardinality({i \in Cells : sq[i] = m})

\* C20: in every snapshot of a History all complete lines carry the same
\* mark, which is the one calculateWinner returns whatever line it meets
\* first, and there are as many X as O, or one X more.
C20_SnapshotsAreLegalPositions ==
  Defined =>
    \A i \in 1 .. Len(state.history) :
      LET sq == state.history[i].squares
      IN  /\ ~(\E k \in 0 .. 7 : \E l \in 0 .. 7 :
                  Holds(sq, k, "X") /\ Holds(sq, l, "O"))
          /\ \A k \in 0 .. 7 :
               Complete(sq, k) => Holds(sq, k, calculateWinner(sq))
          /\ Count(sq, "X") - Count(sq, "O") \in {0, 1}

\* a snapshot in which one move completed two lines
C20_Witness ==
  /\ Defined
  /\ \E k \in 0 .. 7 : \E l \in 0 .. 7 :
       /\ k # l
       /\ Complete(state.history[Len(state.history)].squares, k)
       /\ Complete(state.history[Len(state.history)].squares, l)

\* C14: in the exercise Board, selectSquare changes neither squares nor
\* xIsNext when the board already has a winner or the selected square holds
\* a value.
C14_ExerciseEarlyReturn ==
  [][ (/\ exClicked' # Null
       /\ \/ Truthy(calculateWinner(exSquares))
          \/ Truthy(arrayGet(exSquares, IF exClicked' = Null THEN 0
                                        ELSE selects(exClicked'))))
      => (exSquares' = exSquares /\ exXIsNext' = exXIsNext) ]_vars

\* C15: the exercise Board renders Winner when calculateWinner(squares) is
\* non-null, Scratch when every square is filled without a winner, and Next
\* player only otherwise.
C15_ExerciseStatus ==
  renderStatus =
    IF Truthy(calculateWinner(exSquares))
    THEN <<"Winner", calculateWinner(exSquares)>>
    ELSE IF \A i \in Cells : Truthy(arrayGet(exSquares, i))
         THEN <<"Scratch", Null>>
         ELSE <<"Next player", IF exXIsNext THEN "X" ELSE "O">>

\* C17: the nine buttons of the exercise Board select nine distinct indices
\* covering 0..8, each button shows the cell its click selects, and a mark
\* just played appears on the button that was clicked.
C17_ButtonsAreTheCells ==
  /\ Cardinality({selects(b) : b \in Buttons}) = 9
  /\ {selects(b) : b \in Buttons} = Cells
  /\ \A b \in Buttons :
       shown(exSquares, b) = text(arrayGet(exSquares, selects(b)))
  /\ exClicked # Null => shown(exSquares, exClicked) \in {"X", "O"}

\* the number a string of decimal digits denotes
RECURSIVE Denotes(_)
Denotes(str) ==
  IF str = << >> THEN 0
  ELSE 10 * Denotes(SubSeq(str, 1, Len(str) - 1))
       + (CHOOSE d \in 0 .. 9 : digits[d + 1] = str[Len(str)])

\* C16: the Counter shows 0 at first and one more after every click: after
\* n clicks its button shows n, written without leading zeros.
C16_CounterShowsClicks ==
  /\ \A i \in 1 .. Len(textContent) : \E d \in 0 .. 9 :
       textContent[i] = digits[d + 1]
  /\ Len(textContent) > 1 => textContent[1] # "0"
  /\ Denotes(textContent) = clicks
  /\ clicks = 0 => textContent = <<"0">>
  /\ clicks = 1 => textContent = <<"1">>

\* after 12 clicks the button shows '12'
C16_Witness ==
  /\ clicks = 12
  /\ textContent = <<"1", "2">>

\* C18: after every selection the Board with its own xIsNext state and the
\* Game that derives the turn from stepNumber show the same board, the same
\* next player and the same status.
C18_BoardAndGameInStep ==
  /\ mounted
  /\ Defined
  /\ current(state).squares = boardSquares
  /\ Game_xIsNext(state.stepNumber) = boardXIsNext
  /\ status(state) = RefBoard_status

\* the last dispatch was a select that gave the Game a new state
SelectSucceeds == Selects /\ state' # Undefined /\ state' # state

\* C21: every game ends.  A History never has more than 10 snapshots and
\* the Cursor never exceeds 9; the snapshot at the cursor holds as many marks
\* as the Cursor, every select that succeeds starts from an InProgress state
\* and moves the Cursor up by one, so at most 9 - Cursor selects succeed in a
\* row, and once the state is Won or Draw no select succeeds.
C21_EveryGameEnds ==
  /\ [](Defined =>
          /\ Len(state.history) <= 10
          /\ state.stepNumber <= 9
          /\ Count(current(state).squares, "X")
               + Count(current(state).squares, "O") = state.stepNumber
          /\ state.stepNumber = 9
               => status(state)[1] \in {"Winner", "Scratch"})
  /\ [][ (Defined /\ Selects) =>
           /\ SelectSucceeds =>
                /\ status(state)[1] = "Next player"
                /\ state'.stepNumber = state.stepNumber + 1
                /\ Len(state'.history) = state'.stepNumber + 1
           /\ status(state)[1] # "Next player" => ~SelectSucceeds ]_vars

\* a drawn game of nine moves, finished after going back in time: ten
\* snapshots were appended in all and ten are left, the first one included
C21_Witness ==
  /\ Defined
  /\ jumped
  /\ LastWasSelect
  /\ moves = 10
  /\ state.stepNumber = 9
  /\ Len(state.history) = 10
  /\ status(state)[1] = "Scratch"

\* a select made on a finished game: it did not succeed
C21_WitnessRejected ==
  /\ ~Defined
  /\ LastWasSelect
  /\ moves >= 5

====
